---- MODULE Spec2Model ----
(***************************************************************************)
(* Model of crates/puffin-resolver/src/error.rs: the conversion of the     *)
(* solver's error into ResolveError, the enrichment of NoSolutionError     *)
(* (with_available_versions, with_selector, with_python_requirement) and   *)
(* its rendering (Display::fmt).                                           *)
(***************************************************************************)
EXTENDS Integers, Sequences, FiniteSets, TLC

\* Versions are 1..MaxVersion (pep440_rs::Version, totally ordered).
MaxVersion == 2

Versions == 1..MaxVersion

\* PackageName values known to one resolution.
Names == {"a", "b"}

\* Option::None
None == [none |-> TRUE]

----------------------------------------------------------------------------
\* PubGrubPackage: Root(_), Python(Installed | Target), Package(name, extra, ..)
Root == [kind |-> "Root", name |-> "", extra |-> ""]

Installed == [kind |-> "Python", name |-> "Installed", extra |-> ""]

Target == [kind |-> "Python", name |-> "Target", extra |-> ""]

Package(name, extra) == [kind |-> "Package", name |-> name, extra |-> extra]

PubGrubPackage ==
    {Root, Installed, Target} \cup {Package(n, e) : n \in Names, e \in {"", "x"}}

\* DerivationTree<PubGrubPackage, Range<Version>>: external leaves and derived
\* nodes with exactly two causes.
NoVersions(p) == [type |-> "NoVersions", pkgs |-> <<p>>]

FromDependencyOf(p, q) == [type |-> "FromDependencyOf", pkgs |-> <<p, q>>]

Derived(l, r) == [type |-> "Derived", cause1 |-> l, cause2 |-> r]

\* The derivation trees the solver hands over.
Trees ==
    { NoVersions(Package("b", "")),
      Derived(FromDependencyOf(Root, Package("a", "")), NoVersions(Package("a", ""))),
      Derived(FromDependencyOf(Root, Package("a", "x")),
              Derived(FromDependencyOf(Package("a", "x"), Package("a", "")),
                      FromDependencyOf(Package("a", ""), Installed))),
      Derived(FromDependencyOf(Root, Package("b", "")),
              FromDependencyOf(Package("b", ""), Target)),
      Derived(Derived(FromDependencyOf(Root, Package("a", "")), NoVersions(Package("b", ""))),
              Derived(FromDependencyOf(Package("a", ""), Installed),
                      NoVersions(Package("a", "")))),
      Derived(FromDependencyOf(Installed, Target), NoVersions(Package("b", "x"))) }

\* DerivationTree::packages(): the set of packages occurring in the tree.
RECURSIVE packages(_)
packages(tree) ==
    IF tree.type = "Derived"
    THEN packages(tree.cause1) \cup packages(tree.cause2)
    ELSE {tree.pkgs[i] : i \in DOMAIN tree.pkgs}

\* The external leaves of a tree, left to right.
RECURSIVE leaves(_)
leaves(tree) ==
    IF tree.type = "Derived"
    THEN leaves(tree.cause1) \o leaves(tree.cause2)
    ELSE <<tree>>

\* The interpreter versions.
PythonVersions == {1, 2}

\* PythonRequirement: the pair (installed, target).
PythonRequirement == [installed : PythonVersions, target : PythonVersions]

\* CandidateSelector: the pre-release policy is what the hints read.
CandidateSelector == [prerelease : {"Allow", "Disallow"}]

\* VersionMap: version -> candidate artifact; an index entry holds the
\* releases 1..k of its package (k = 0: a package without any release).
VersionMap == {[v \in 1..k |-> "dist"] : k \in 0..MaxVersion}

\* OnceMap<PackageName, VersionMap>: the names with a value.
OnceMap == UNION {[ns -> VersionMap] : ns \in SUBSET Names}

\* IndexMap::default()
EmptyMap == [p \in {} |-> {}]

\* The messages of PubGrubError::Failure.
Messages == {"m1", "m2"}

\* pubgrub::error::PubGrubError as the solver returns it.
PubGrubError ==
    [kind : {"NoSolution"}, derivation_tree : Trees]
    \cup [kind : {"SelfDependency"}, package : {Package(n, "") : n \in Names},
          version : Versions]
    \cup [kind : {"Failure"}, msg : Messages]

----------------------------------------------------------------------------
VARIABLES
    value,               \* the solver's outcome (PubGrubError), None while resolving
    err,                 \* the ResolveError built from it, None before
    python_requirement,  \* the resolver's PythonRequirement
    visited,             \* the visited set handed to with_available_versions
    package_versions,    \* the index handed to with_available_versions
    enriched,            \* with_available_versions has been applied to err
    op,                  \* the last operation applied
    text,                \* what the last fmt wrote, <<>> after any other operation
    input,               \* a resolution's requirements, metadata responses and selector
    started,             \* the names whose fetch has been registered in the index
    fetch_calls,         \* per name, the calls made to the fetch collaborator
    in_flight,           \* per name, the fetch calls that have not completed
    filled_by,           \* per name, the fetch call whose response the index holds
    wait,                \* per task, the name it awaits ("" when it awaits nothing)
    received,            \* per task, the result of its last request
    previous             \* the outcome of an earlier resolution of the same input

\* The state of the resolver around the error.
rvars == <<input, started, fetch_calls, in_flight, filled_by, wait, received, previous>>

vars == <<value, err, python_requirement, visited, package_versions, enriched, op, text,
          rvars>>

----------------------------------------------------------------------------
\* From with the SelfDependency arm folded into the catch-all Failure.
From_self_dependency_as_failure(v) ==
    CASE v.kind = "Failure" -> [kind |-> "Failure", msg |-> v.msg]
      [] v.kind = "NoSolution" ->
            [kind |-> "NoSolution",
             derivation_tree |-> v.derivation_tree,
             available_versions |-> EmptyMap,
             selector |-> None,
             python_requirement |-> None]
      [] v.kind = "SelfDependency" -> [kind |-> "Failure", msg |-> "m1"]

\* From with the NoSolution arm reported as a plain Failure, without its tree.
From_no_solution_as_failure(v) ==
    CASE v.kind = "Failure" -> [kind |-> "Failure", msg |-> v.msg]
      [] v.kind = "NoSolution" -> [kind |-> "Failure", msg |-> "m1"]
      [] v.kind = "SelfDependency" ->
            [kind |-> "SelfDependency", package |-> v.package, version |-> v.version]

\* impl From<PubGrubError> for ResolveError. The three variants over Infallible
\* (ErrorChoosingPackageVersion, ErrorInShouldCancel, ErrorRetrievingDependencies)
\* have no values.
From(v) ==
    CASE v.kind = "Failure" -> [kind |-> "Failure", msg |-> v.msg]
      [] v.kind = "NoSolution" ->
            [kind |-> "NoSolution",
             derivation_tree |-> v.derivation_tree,
             available_versions |-> EmptyMap,
             selector |-> None,
             python_requirement |-> None]
      [] v.kind = "SelfDependency" ->
            [kind |-> "SelfDependency", package |-> v.package, version |-> v.version]

\* with_available_versions without the `visited.contains(name)` test.
with_available_versions_unvisited(self, py, vis, index) ==
    LET inserted(p) ==
            CASE p.kind = "Root" -> FALSE
              [] p.kind = "Python" -> TRUE
              [] p.kind = "Package" -> p.name \in DOMAIN index
        entry(p) ==
            IF p.kind = "Python"
            THEN IF p.name = "Installed" THEN {py.installed} ELSE {py.target}
            ELSE DOMAIN index[p.name]
        available_versions ==
            [p \in {q \in packages(self.derivation_tree) : inserted(q)} |-> entry(p)]
    IN  [self EXCEPT !.available_versions = available_versions]

\* with_available_versions inserting an empty set for a visited name that has
\* no index entry.
with_available_versions_or_default(self, py, vis, index) ==
    LET inserted(p) ==
            CASE p.kind = "Root" -> FALSE
              [] p.kind = "Python" -> TRUE
              [] p.kind = "Package" -> p.name \in vis
        entry(p) ==
            IF p.kind = "Python"
            THEN IF p.name = "Installed" THEN {py.installed} ELSE {py.target}
            ELSE IF p.name \in DOMAIN index THEN DOMAIN index[p.name] ELSE {}
        available_versions ==
            [p \in {q \in packages(self.derivation_tree) : inserted(q)} |-> entry(p)]
    IN  [self EXCEPT !.available_versions = available_versions]

\* with_available_versions inserting into self.available_versions instead of
\* into a fresh map.
with_available_versions_merging(self, py, vis, index) ==
    LET inserted(p) ==
            CASE p.kind = "Root" -> FALSE
              [] p.kind = "Python" -> TRUE
              [] p.kind = "Package" -> p.name \in vis /\ p.name \in DOMAIN index
        entry(p) ==
            IF p.kind = "Python"
            THEN IF p.name = "Installed" THEN {py.installed} ELSE {py.target}
            ELSE DOMAIN index[p.name]
        fresh == {q \in packages(self.derivation_tree) : inserted(q)}
        available_versions ==
            [p \in fresh \cup DOMAIN self.available_versions |->
                IF p \in fresh THEN entry(p) ELSE self.available_versions[p]]
    IN  [self EXCEPT !.available_versions = available_versions]

\* with_available_versions with the two interpreter versions exchanged.
with_available_versions_swapped(self, py, vis, index) ==
    LET inserted(p) ==
            CASE p.kind = "Root" -> FALSE
              [] p.kind = "Python" -> TRUE
              [] p.kind = "Package" -> p.name \in vis /\ p.name \in DOMAIN index
        entry(p) ==
            IF p.kind = "Python"
            THEN IF p.name = "Installed" THEN {py.target} ELSE {py.installed}
            ELSE DOMAIN index[p.name]
        available_versions ==
            [p \in {q \in packages(self.derivation_tree) : inserted(q)} |-> entry(p)]
    IN  [self EXCEPT !.available_versions = available_versions]

\* NoSolutionError::with_available_versions
with_available_versions(self, py, vis, index) ==
    LET inserted(p) ==
            CASE p.kind = "Root" -> FALSE
              [] p.kind = "Python" -> TRUE
              [] p.kind = "Package" -> p.name \in vis /\ p.name \in DOMAIN index
        entry(p) ==
            IF p.kind = "Python"
            THEN IF p.name = "Installed" THEN {py.installed} ELSE {py.target}
            ELSE DOMAIN index[p.name]
        available_versions ==
            [p \in {q \in packages(self.derivation_tree) : inserted(q)} |-> entry(p)]
    IN  [self EXCEPT !.available_versions = available_versions]

\* PubGrubReportFormatter + DefaultStringReporter::report_with_formatter: one
\* line per external incompatibility, left to right; a line shows, for each of
\* its packages, the available versions the formatter holds for it (if any) and,
\* where it concerns an interpreter package, the environment requirement.
report_with_formatter(tree, formatter) ==
    LET ls == leaves(tree)
        shown(p) ==
            IF p \in DOMAIN formatter.available_versions
            THEN {formatter.available_versions[p]}
            ELSE {}
        line(l) ==
            [kind |-> "line",
             leaf |-> l,
             versions |-> [i \in DOMAIN l.pkgs |-> shown(l.pkgs[i])],
             python |-> IF \E i \in DOMAIN l.pkgs : l.pkgs[i].kind = "Python"
                        THEN formatter.python_requirement
                        ELSE None]
    IN  [i \in DOMAIN ls |-> line(ls[i])]

\* PubGrubReportFormatter::hints: a pre-release hint for every package reported
\* without versions, when the selector's policy excludes pre-releases.
hints(tree, selector) ==
    LET ls == leaves(tree)
        hinted(l) ==
            /\ l.type = "NoVersions"
            /\ l.pkgs[1].kind = "Package"
            /\ selector.prerelease = "Disallow"
        hs == SelectSeq(ls, hinted)
    IN  [i \in DOMAIN hs |-> [kind |-> "hint", package |-> hs[i].pkgs[1]]]

\* The "\n\n" written before each hint.
Blank == [kind |-> "blank"]

RECURSIVE write_hints(_)
write_hints(hs) ==
    IF hs = <<>> THEN <<>> ELSE <<Blank, Head(hs)>> \o write_hints(Tail(hs))

\* write_hints with the blank line written after each hint.
RECURSIVE write_hints_trailing(_)
write_hints_trailing(hs) ==
    IF hs = <<>> THEN <<>> ELSE <<Head(hs), Blank>> \o write_hints_trailing(Tail(hs))

\* fmt writing the blank line after each hint instead of before it.
fmt_trailing_blank(self) ==
    LET formatter ==
            [available_versions |-> self.available_versions,
             python_requirement |-> self.python_requirement]
        report == report_with_formatter(self.derivation_tree, formatter)
    IN  IF self.selector # None
        THEN report \o write_hints_trailing(hints(self.derivation_tree, self.selector))
        ELSE report

\* fmt writing after whatever the previous rendering left behind.
fmt_appending(self) ==
    LET formatter ==
            [available_versions |-> self.available_versions,
             python_requirement |-> self.python_requirement]
        report == report_with_formatter(self.derivation_tree, formatter)
    IN  IF self.selector # None
        THEN text \o report \o write_hints(hints(self.derivation_tree, self.selector))
        ELSE text \o report

\* impl Display for NoSolutionError: fmt, as the text written to the formatter
fmt(self) ==
    LET formatter ==
            [available_versions |-> self.available_versions,
             python_requirement |-> self.python_requirement]
        report == report_with_formatter(self.derivation_tree, formatter)
    IN  IF self.selector # None
        THEN report \o write_hints(hints(self.derivation_tree, self.selector))
        ELSE report

\* NoSolutionError::with_selector
with_selector(self, selector) == [self EXCEPT !.selector = selector]

\* NoSolutionError::with_python_requirement
with_python_requirement(self, py) == [self EXCEPT !.python_requirement = py]

----------------------------------------------------------------------------
Init ==
    /\ value = None
    /\ err = None
    /\ python_requirement \in PythonRequirement
    /\ visited = {}
    /\ package_versions = EmptyMap
    /\ enriched = FALSE
    /\ op = "new"
    /\ text = <<>>
    /\ input = None
    /\ started = {}
    /\ fetch_calls = [n \in Names |-> 0]
    /\ in_flight = [n \in Names |-> 0]
    /\ filled_by = [n \in Names |-> 0]
    /\ wait = <<>>
    /\ received = <<>>
    /\ previous = None

\* The solver ends with an error.
Fail ==
    /\ value = None
    /\ \E v \in PubGrubError : value' = v
    /\ op' = "solve"
    /\ UNCHANGED <<err, python_requirement, visited, package_versions, enriched, text, rvars>>

Convert ==
    /\ value # None
    /\ err = None
    /\ err' = From(value)
    /\ op' = "from"
    /\ UNCHANGED <<value, python_requirement, visited, package_versions, enriched, text, rvars>>

WithAvailableVersions ==
    /\ err # None
    /\ err.kind = "NoSolution"
    /\ \E vis \in SUBSET Names, index \in OnceMap :
        /\ visited' = vis
        /\ package_versions' = index
        /\ err' = with_available_versions(err, python_requirement, vis, index)
    /\ enriched' = TRUE
    /\ op' = "with_available_versions"
    /\ text' = <<>>
    /\ UNCHANGED <<value, python_requirement, rvars>>

WithSelector ==
    /\ err # None
    /\ err.kind = "NoSolution"
    /\ \E selector \in CandidateSelector : err' = with_selector(err, selector)
    /\ op' = "with_selector"
    /\ text' = <<>>
    /\ UNCHANGED <<value, python_requirement, visited, package_versions, enriched, rvars>>

WithPythonRequirement ==
    /\ err # None
    /\ err.kind = "NoSolution"
    /\ err' = with_python_requirement(err, python_requirement)
    /\ op' = "with_python_requirement"
    /\ text' = <<>>
    /\ UNCHANGED <<value, python_requirement, visited, package_versions, enriched, rvars>>

\* The error is displayed.
Fmt ==
    /\ err # None
    /\ err.kind = "NoSolution"
    /\ text' = fmt(err)
    /\ op' = "fmt"
    /\ UNCHANGED <<value, err, python_requirement, visited, package_versions, enriched, rvars>>

Next ==
    \/ Fail
    \/ Convert
    \/ WithAvailableVersions
    \/ WithSelector
    \/ WithPythonRequirement
    \/ Fmt

Spec == Init /\ [][Next]_vars

----------------------------------------------------------------------------
\* The solver driver and the version metadata index around the error.

\* A requirement on a package name: the allowed versions.
Req(n, r) == [name |-> n, range |-> r]

\* The metadata response for a name: its releases 1..k and, per release, its
\* requirements.
Response(k, deps) == [releases |-> k, deps |-> deps]

\* The resolutions under a selector: root requirements and the
\* fixed metadata responses.
Scenarios(selector) ==
    LET in(reqs, ma, mb) ==
            [requirements |-> reqs,
             meta |-> [n \in Names |-> IF n = "a" THEN ma ELSE mb],
             selector |-> selector]
    IN  { \* a 2 needs the missing b 2, a 1 and b 1 are the solution
          in({Req("a", Versions)},
             Response(2, <<{Req("b", {1})}, {Req("b", {2})}>>),
             Response(1, <<{}>>)),
          \* the root and a disagree on b: no solution, b is never examined
          in({Req("a", Versions), Req("b", {1})},
             Response(1, <<{Req("b", {2})}>>),
             Response(2, <<{}, {}>>)),
          \* a 2 requires a 1: a self-dependency
          in({Req("a", Versions)},
             Response(2, <<{}, {Req("a", {1})}>>),
             Response(1, <<{}>>)),
          \* a needs b 2, which was never released: no solution, both examined
          in({Req("a", Versions)},
             Response(1, <<{Req("b", {2})}>>),
             Response(1, <<{}>>)) }

Inputs == UNION {Scenarios(selector) : selector \in CandidateSelector}

\* The order in which the solver takes up packages.
NameOrder == <<"a", "b">>

First(S) ==
    NameOrder[CHOOSE i \in DOMAIN NameOrder :
                /\ NameOrder[i] \in S
                /\ \A j \in 1..(i - 1) : NameOrder[j] \notin S]

\* A sequence without its repeated elements.
RECURSIVE Dedup(_)
Dedup(seq) ==
    IF seq = <<>> THEN <<>>
    ELSE LET rest == Dedup(SubSeq(seq, 1, Len(seq) - 1))
             last == seq[Len(seq)]
         IN  IF \E i \in DOMAIN rest : rest[i] = last THEN rest ELSE Append(rest, last)

\* The derivation tree over a sequence of external incompatibilities.
RECURSIVE TreeOf(_)
TreeOf(ls) == IF Len(ls) = 1 THEN ls[1] ELSE Derived(Head(ls), TreeOf(Tail(ls)))

\* The dependency edges onto n as external incompatibilities.
EdgeLeaves(edges, n) ==
    LET onto == SelectSeq(edges, LAMBDA e : e.child = n)
    IN  [i \in DOMAIN onto |-> FromDependencyOf(onto[i].parent, Package(n, ""))]

\* The ranges of reqs on m, intersected with allowed.
Narrow(allowed, reqs, m) ==
    {v \in allowed : \A d \in reqs : d.name = m => v \in d.range}

\* The edges parent -> the names of reqs.
EdgesOf(parent, reqs) ==
    LET ns == SelectSeq(NameOrder, LAMBDA m : \E d \in reqs : d.name = m)
    IN  [i \in DOMAIN ns |-> [parent |-> parent, child |-> ns[i]]]

\* The solver over the metadata of the names in vis: propagation of the ranges,
\* newest-first decisions with backtracking, a self-dependency reported at once,
\* and a version list asked for only when a decision needs it.
RECURSIVE Search(_, _, _, _, _), TryFrom(_, _, _, _, _, _, _, _)
Search(assign, cons, edges, in, vis) ==
    LET wanted == {edges[i].child : i \in DOMAIN edges}
        conflicts == {n \in wanted :
                        \/ cons[n] = {}
                        \/ n \in DOMAIN assign /\ assign[n] \notin cons[n]}
    IN  IF conflicts # {}
        THEN [kind |-> "Fail", leaves |-> EdgeLeaves(edges, First(conflicts))]
        ELSE IF wanted \subseteq DOMAIN assign
        THEN [kind |-> "Solution", assignment |-> assign]
        ELSE LET n == First(wanted \ DOMAIN assign) IN
             IF n \notin vis
             THEN [kind |-> "Need", name |-> n]
             ELSE TryFrom(in.meta[n].releases, n, <<>>, assign, cons, edges, in, vis)

TryFrom(v, n, acc, assign, cons, edges, in, vis) ==
    IF v = 0
    THEN [kind |-> "Fail",
          leaves |-> EdgeLeaves(edges, n) \o acc \o <<NoVersions(Package(n, ""))>>]
    ELSE IF v \notin cons[n]
    THEN TryFrom(v - 1, n, acc, assign, cons, edges, in, vis)
    ELSE LET deps == in.meta[n].deps[v] IN
         IF \E d \in deps : d.name = n /\ v \notin d.range
         THEN [kind |-> "SelfDependency", package |-> Package(n, ""), version |-> v]
         ELSE LET r == Search(assign @@ (n :> v),
                              [m \in Names |-> Narrow(cons[m], deps, m)],
                              edges \o EdgesOf(Package(n, ""), deps),
                              in, vis)
              IN  IF r.kind = "Fail"
                  THEN TryFrom(v - 1, n, acc \o r.leaves, assign, cons, edges, in, vis)
                  ELSE r

\* What the solver does next, knowing the metadata of the names in vis: ask
\* for a name's versions (Need), or end with a solution or a PubGrubError.
Decide(in, vis) ==
    LET r == Search(<<>>,
                    [m \in Names |-> Narrow(Versions, in.requirements, m)],
                    EdgesOf(Root, in.requirements),
                    in, vis)
    IN  IF r.kind = "Fail"
        THEN [kind |-> "NoSolution", derivation_tree |-> TreeOf(Dedup(r.leaves))]
        ELSE r

\* The tasks that ask the index for metadata: the solver (0) and the
\* prefetching tasks.
NumPrefetch == 2

Tasks == 0..NumPrefetch

\* The fetch calls one name may see.
MaxFetchCalls == 2

\* Single-flight registration that lets every requester start a fetch.
must_fetch_always(registered, n) == TRUE

\* Single-flight registration: only the first requester of a name fetches.
must_fetch(registered, n) == n \notin registered

\* The version map the fetch collaborator returns for a metadata response.
VersionMapOf(response) == [v \in 1..response.releases |-> "dist"]

\* The names the solver has come across: the root requirements and the
\* requirements of the packages it examined.
Mentioned(in, vis) ==
    {d.name : d \in in.requirements}
    \cup {m \in Names : \E n \in vis : \E v \in 1..in.meta[n].releases :
                            \E d \in in.meta[n].deps[v] : d.name = m}

\* The enrichment of a NoSolution error before it is surfaced.
enrich(e, py, vis, index, selector) ==
    IF e.kind = "NoSolution"
    THEN with_python_requirement(
            with_selector(with_available_versions(e, py, vis, index), selector), py)
    ELSE e

\* What a finished resolution hands to its consumer: the assignment, or the
\* error with its rendered text.
Outcome ==
    IF value # None /\ value.kind = "Solution" THEN value
    ELSE IF err # None /\ err.kind # "NoSolution" THEN [kind |-> err.kind, error |-> err]
    ELSE IF err # None /\ op = "fmt"
         THEN [kind |-> "NoSolution", error |-> err, rendered |-> text]
         ELSE None

InitResolve ==
    /\ value = None
    /\ err = None
    /\ python_requirement \in PythonRequirement
    /\ visited = {}
    /\ package_versions = EmptyMap
    /\ enriched = FALSE
    /\ op = "new"
    /\ text = <<>>
    /\ input \in Inputs
    /\ started = {}
    /\ fetch_calls = [n \in Names |-> 0]
    /\ in_flight = [n \in Names |-> 0]
    /\ filled_by = [n \in Names |-> 0]
    /\ wait = [t \in Tasks |-> ""]
    /\ received = [t \in Tasks |-> None]
    /\ previous = None

\* get_or_fetch(n) by task t: the first caller triggers the fetch, every caller
\* then awaits the result.
GetOrFetch(t, n) ==
    /\ wait[t] = ""
    /\ wait' = [wait EXCEPT ![t] = n]
    /\ LET fetch == must_fetch(started, n) /\ fetch_calls[n] < MaxFetchCalls IN
        /\ started' = started \cup {n}
        /\ fetch_calls' = [fetch_calls EXCEPT ![n] = IF fetch THEN @ + 1 ELSE @]
        /\ in_flight' = [in_flight EXCEPT ![n] = IF fetch THEN @ + 1 ELSE @]
    /\ UNCHANGED <<value, err, python_requirement, visited, package_versions, enriched,
                   text, input, filled_by, received, previous>>

\* The solver needs the version list of a package.
Request ==
    /\ value = None
    /\ Decide(input, visited).kind = "Need"
    /\ GetOrFetch(0, Decide(input, visited).name)
    /\ op' = "request"

\* A prefetching task asks for a package the solver has come across.
Prefetch ==
    /\ value = None
    /\ \E t \in Tasks \ {0}, n \in Mentioned(input, visited) : GetOrFetch(t, n)
    /\ op' = "prefetch"

\* A fetch call completes, in any order, and its response fills the index.
FetchComplete ==
    /\ \E n \in Names :
        /\ in_flight[n] > 0
        /\ in_flight' = [in_flight EXCEPT ![n] = @ - 1]
        /\ filled_by' = [filled_by EXCEPT ![n] = fetch_calls[n] - in_flight[n] + 1]
        /\ package_versions' =
                [m \in DOMAIN package_versions \cup {n} |->
                    IF m = n THEN VersionMapOf(input.meta[n]) ELSE package_versions[m]]
    /\ op' = "fetched"
    /\ UNCHANGED <<value, err, python_requirement, visited, enriched, text, input,
                   started, fetch_calls, wait, received, previous>>

\* A waiting task receives the result; the solver marks the name visited.
Receive ==
    /\ \E t \in Tasks :
        /\ wait[t] # ""
        /\ wait[t] \in DOMAIN package_versions
        /\ received' = [received EXCEPT ![t] =
                            [name |-> wait[t],
                             versions |-> package_versions[wait[t]],
                             call |-> filled_by[wait[t]]]]
        /\ wait' = [wait EXCEPT ![t] = ""]
        /\ visited' = IF t = 0 THEN visited \cup {wait[t]} ELSE visited
    /\ op' = "receive"
    /\ UNCHANGED <<value, err, python_requirement, package_versions, enriched, text,
                   input, started, fetch_calls, in_flight, filled_by, previous>>

\* The solver terminates: a solution or a PubGrubError.
Solve ==
    /\ value = None
    /\ wait[0] = ""
    /\ Decide(input, visited).kind # "Need"
    /\ value' = Decide(input, visited)
    /\ op' = "solve"
    /\ UNCHANGED <<err, python_requirement, visited, package_versions, enriched, text,
                   rvars>>

\* The solver's error is converted and, for NoSolution, enriched.
Report ==
    /\ value # None
    /\ value.kind # "Solution"
    /\ err = None
    /\ err' = enrich(From(value), python_requirement, visited, package_versions,
                     input.selector)
    /\ enriched' = (value.kind = "NoSolution")
    /\ op' = "report"
    /\ UNCHANGED <<value, python_requirement, visited, package_versions, text, rvars>>

\* The same input is resolved again; the index is discarded, or reused as a
\* cache when no fetch is outstanding.
Restart ==
    /\ Outcome # None
    /\ previous' = Outcome
    /\ value' = None
    /\ err' = None
    /\ visited' = {}
    /\ enriched' = FALSE
    /\ text' = <<>>
    /\ op' = "restart"
    /\ wait' = [t \in Tasks |-> ""]
    /\ received' = [t \in Tasks |-> None]
    /\ \/ /\ \A n \in Names : in_flight[n] = 0
          /\ UNCHANGED <<package_versions, started, fetch_calls, in_flight, filled_by>>
       \/ /\ package_versions' = EmptyMap
          /\ started' = {}
          /\ fetch_calls' = [n \in Names |-> 0]
          /\ in_flight' = [n \in Names |-> 0]
          /\ filled_by' = [n \in Names |-> 0]
    /\ UNCHANGED <<python_requirement, input>>

NextResolve ==
    \/ Request
    \/ Prefetch
    \/ FetchComplete
    \/ Receive
    \/ Solve
    \/ Report
    \/ Fmt
    \/ Restart

SpecResolve == InitResolve /\ [][NextResolve]_vars

----------------------------------------------------------------------------
\* The named packages.
Named(ps) == {p \in ps : p.kind = "Package"}

\* The context fields only NoSolutionError has.
ContextFields == {"derivation_tree", "available_versions", "selector", "python_requirement"}

IsNoSolution == err # None /\ err.kind = "NoSolution"

\* C1 (as stated): every named package the rendered report names was in the
\* visited set handed to with_available_versions.
C1_Original ==
    (op = "fmt" /\ enriched) =>
        \A i \in DOMAIN text :
            text[i].kind = "line" =>
                \A j \in DOMAIN text[i].leaf.pkgs :
                    text[i].leaf.pkgs[j].kind = "Package" =>
                        text[i].leaf.pkgs[j].name \in visited

\* C1 (amended): every named package for which the rendered report shows
\* available versions was in the visited set handed to with_available_versions,
\* and the versions shown are those of its index entry.
C1_ShownVersionsWereVisited ==
    op = "fmt" =>
        \A i \in DOMAIN text :
            text[i].kind = "line" =>
                \A j \in DOMAIN text[i].leaf.pkgs :
                    LET p == text[i].leaf.pkgs[j] IN
                    (p.kind = "Package" /\ text[i].versions[j] # {}) =>
                        /\ enriched
                        /\ p.name \in visited
                        /\ p.name \in DOMAIN package_versions
                        /\ text[i].versions[j] = {DOMAIN package_versions[p.name]}

\* A report that shows the versions of a visited package and names another
\* package that was fetched but never visited.
C1_Witness ==
    /\ op = "fmt"
    /\ enriched
    /\ \E i \in DOMAIN text : \E j \in DOMAIN text[i].leaf.pkgs :
            /\ text[i].leaf.pkgs[j].kind = "Package"
            /\ text[i].versions[j] \notin {{}, {{}}}
    /\ \E i \in DOMAIN text : \E j \in DOMAIN text[i].leaf.pkgs :
            /\ text[i].leaf.pkgs[j].kind = "Package"
            /\ text[i].leaf.pkgs[j].name \notin visited
            /\ text[i].leaf.pkgs[j].name \in DOMAIN package_versions

\* C2: after with_available_versions a named package of the tree has an entry
\* iff its name is visited and indexed, and the entry is then exactly the
\* versions of the index entry.
C2_EntryIffVisitedAndIndexed ==
    (IsNoSolution /\ enriched) =>
        \A p \in Named(packages(err.derivation_tree)) :
            /\ p \in DOMAIN err.available_versions
                <=> (p.name \in visited /\ p.name \in DOMAIN package_versions)
            /\ p \in DOMAIN err.available_versions
                => err.available_versions[p] = DOMAIN package_versions[p.name]

\* One package with its versions attached, one visited without an index entry.
C2_Witness ==
    /\ IsNoSolution
    /\ op = "with_available_versions"
    /\ \E p, q \in Named(packages(err.derivation_tree)) :
        /\ p \in DOMAIN err.available_versions
        /\ err.available_versions[p] # {}
        /\ q.name \in visited
        /\ q.name \notin DOMAIN package_versions

C7_EnrichmentFrame ==
    [][/\ op' = "with_selector" =>
            err' = [err EXCEPT !.selector = err'.selector]
       /\ op' = "with_python_requirement" =>
            err' = [err EXCEPT !.python_requirement = err'.python_requirement]
       /\ op' = "with_available_versions" =>
            /\ err' = [err EXCEPT !.available_versions = err'.available_versions]
            /\ \A p \in Named(DOMAIN err'.available_versions) :
                    p.name \in visited' /\ p.name \in DOMAIN package_versions']_vars

\* A second with_available_versions that attached nothing for a named package,
\* on an error that has a selector and still no python requirement.
C7_Witness ==
    /\ IsNoSolution
    /\ op = "with_available_versions"
    /\ err.selector # None
    /\ err.python_requirement = None
    /\ Named(packages(err.derivation_tree)) \ DOMAIN err.available_versions # {}
    /\ DOMAIN err.available_versions # {}

\* C8: NoSolution converts to a NoSolutionError with the same tree and no
\* context, Failure keeps its message, and no other kind has the context fields.
C8_Conversion ==
    /\ (op = "from" /\ value.kind = "NoSolution") =>
            err = [kind |-> "NoSolution",
                   derivation_tree |-> value.derivation_tree,
                   available_versions |-> EmptyMap,
                   selector |-> None,
                   python_requirement |-> None]
    /\ (err # None /\ value.kind = "Failure") =>
            err = [kind |-> "Failure", msg |-> value.msg]
    /\ (err # None /\ err.kind # "NoSolution") =>
            /\ DOMAIN err \cap ContextFields = {}
            /\ ~enriched
    /\ (err # None) => (err.kind = "NoSolution" <=> value.kind = "NoSolution")

C8_Witness ==
    /\ op = "from"
    /\ value.kind = "NoSolution"
    /\ Cardinality(packages(err.derivation_tree)) > 2

\* C9: the interpreter packages of the tree map to the one version of the
\* python requirement, Root has no entry, and nothing outside the tree has one.
C9_VirtualPackages ==
    (IsNoSolution /\ enriched) =>
        /\ Installed \in packages(err.derivation_tree) =>
            /\ Installed \in DOMAIN err.available_versions
            /\ err.available_versions[Installed] = {python_requirement.installed}
        /\ Target \in packages(err.derivation_tree) =>
            /\ Target \in DOMAIN err.available_versions
            /\ err.available_versions[Target] = {python_requirement.target}
        /\ Root \notin DOMAIN err.available_versions
        /\ DOMAIN err.available_versions \subseteq packages(err.derivation_tree)

\* Both interpreter packages in the tree, with different versions, nothing visited.
C9_Witness ==
    /\ IsNoSolution
    /\ op = "with_available_versions"
    /\ {Installed, Target} \subseteq packages(err.derivation_tree)
    /\ python_requirement.installed # python_requirement.target
    /\ visited = {}
    /\ DOMAIN package_versions # {}

\* C10: the text is the report, then each hint preceded by a blank line, in
\* the formatter's order; without a selector it is the report alone.
C10_ReportThenHints ==
    op = "fmt" =>
        LET report == report_with_formatter(err.derivation_tree,
                        [available_versions |-> err.available_versions,
                         python_requirement |-> err.python_requirement])
            n == Len(report)
        IN  /\ Len(text) >= n
            /\ SubSeq(text, 1, n) = report
            /\ err.selector = None => text = report
            /\ err.selector # None =>
                LET hs == hints(err.derivation_tree, err.selector) IN
                /\ Len(text) = n + 2 * Len(hs)
                /\ \A i \in 1..Len(hs) :
                    /\ text[n + 2 * i - 1] = Blank
                    /\ text[n + 2 * i] = hs[i]

\* Two hints follow the report.
C10_Witness ==
    /\ op = "fmt"
    /\ err.selector # None
    /\ Len(hints(err.derivation_tree, err.selector)) = 2
    /\ Len(text) = Len(leaves(err.derivation_tree)) + 4

\* C3: the solver's SelfDependency{package, version} converts to the
\* SelfDependency error with that package and that version, never to
\* NoSolution or Failure.
C3_SelfDependencyPreserved ==
    (err # None /\ value.kind = "SelfDependency") =>
        err = [kind |-> "SelfDependency",
               package |-> value.package,
               version |-> value.version]

\* A self-dependency of package b at the newest version has been converted.
C3_Witness ==
    /\ op = "from"
    /\ value.kind = "SelfDependency"
    /\ err.kind = "SelfDependency"
    /\ err.package = Package("b", "")
    /\ err.version = MaxVersion

====
